---- MODULE Spec2Model ----
(***************************************************************************)
(* Model of src/src/imitation/scripts/eval_policy.py: the InteractiveRender *)
(* wrapper and the eval_policy command.  The rollout module, the reward    *)
(* wrapper and the two artifact loaders are not part of the file; they are *)
(* modelled after the specification's contracts (sections 3, 4 and 7).     *)
(***************************************************************************)
EXTENDS Integers, Sequences, FiniteSets, TLC

\* ---------------------------------------------------------------- bounds
MaxVec == 2
MaxEpLen == 2
MaxEpisodes == 2
MaxTimesteps == 3

\* ------------------------------------------------------- value encodings
\* Optional[int]: None is the empty tuple, the integer n is <<n>>.
None == <<>>
Some(n) == <<n>>
IsSet(x) == x # None
\* Optional[str] reward_type: Python None is the string "None".
NoRewardType == "None"
RewardTypes == {"const5", "shaped"}
RenderFpsValues == {-1, 0, 2}
ResetObs == 0

VARIABLES
    cfg,           \* the arguments of eval_policy
    pc,            \* position in eval_policy
    exc,           \* pending / propagated exception, "none" when there is none
    result,        \* <<return value of eval_policy>>, <<>> until it returns
    sample_until,  \* local sample_until (line 89)
    envMade,       \* number of calls of util.make_vec_env
    layers,        \* wrapper chain of local venv, innermost first
    loadCalls,     \* number of calls of load_reward / load_policy
    loadFailed,    \* the loads that failed
    held,          \* resources currently acquired
    resLog,        \* history of acquisitions and releases
    genCalls,      \* number of calls of generate_trajectories
    genReturned,   \* generate_trajectories returned normally
    statsCalls,    \* number of calls of rollout_stats
    obs,           \* current observation of every environment instance
    cur,           \* the rollout engine's partial trajectory per instance
    active,        \* instances whose episodes are still being collected
    trajectories,  \* the rollout engine's completed trajectories
    trajs,         \* local trajs of eval_policy (line 111)
    envSteps,      \* number of venv.step calls
    lastBase,      \* what the innermost environment returned in the last call
    irRet,         \* what InteractiveRender returned in the last call
    lastOut,       \* what the outermost wrapper returned in the last call
    renderLog      \* effects of InteractiveRender during the last call

ctlVars == <<pc, exc, result>>
setupVars == <<sample_until, envMade, layers>>
resVars == <<loadCalls, loadFailed, held, resLog>>
engineVars == <<genCalls, genReturned, obs, cur, active, trajectories, trajs, envSteps>>
callVars == <<lastBase, irRet, lastOut, renderLog>>
vars == <<cfg, ctlVars, setupVars, resVars, engineVars, callVars, statsCalls>>

Envs == 1..cfg.num_vec
NoCall == [kind |-> "none"]
NoSampleUntil == [kind |-> "unset", n |-> 0]

\* ------------------------------------------------- InteractiveRender (19-34)
\* reset: forward, render, return the forwarded value.
InteractiveRender_reset(under) ==
    [ret |-> under, log |-> <<"venv.reset", "render">>]

InteractiveRender_step_wait_renderFirst(under, fps) ==
    [ret |-> under,
     log |-> <<"venv.step_wait", "render">>
             \o (IF fps > 0 THEN <<"sleep">> ELSE <<>>)]

\* step_wait: forward, sleep 1/fps when fps > 0, render, return the value.
InteractiveRender_step_wait(under, fps) ==
    [ret |-> under,
     log |-> <<"venv.step_wait">>
             \o (IF fps > 0 THEN <<"sleep">> ELSE <<>>)
             \o <<"render">>]

\* --------------------------------------------- external contracts (spec)
\* The policy: an opaque map from observation to action.
Policy(o) == o % 2

\* The environment's native reward.
NativeReward(o, a) == (o + a) % 2

\* The loaded reward function of (state, action, next state).
RewardFn(rtype, o, a, o2) ==
    IF rtype = "const5" THEN 5 ELSE 10 + 2 * o + a + o2

\* rollout.make_sample_until: exactly one of the two must be set.
make_sample_until(n_timesteps, n_episodes) ==
    IF IsSet(n_timesteps) /\ IsSet(n_episodes) THEN [kind |-> "ValueError", n |-> 0]
    ELSE IF IsSet(n_timesteps) THEN [kind |-> "timesteps", n |-> n_timesteps[1]]
    ELSE IF IsSet(n_episodes) THEN [kind |-> "episodes", n |-> n_episodes[1]]
    ELSE [kind |-> "ValueError", n |-> 0]

RECURSIVE SumLen(_)
SumLen(ts) == IF ts = <<>> THEN 0 ELSE Len(Head(ts)) + SumLen(Tail(ts))

\* The stopping condition applied to the completed trajectories.
SampleUntil(su, ts) ==
    IF su.kind = "episodes" THEN Len(ts) >= su.n ELSE SumLen(ts) >= su.n

\* One step of the innermost vectorized environment: every instance advances,
\* an instance that is done is reset at once.
VecEnvStep(o, acts, dn) ==
    [kind |-> "step",
     nextObs |-> [i \in DOMAIN o |-> o[i] + 1],
     dones |-> [i \in DOMAIN o |-> dn[i] \/ o[i] + 1 >= MaxEpLen],
     rews |-> [i \in DOMAIN o |-> NativeReward(o[i], acts[i])],
     obs |-> [i \in DOMAIN o |->
                 IF dn[i] \/ o[i] + 1 >= MaxEpLen THEN ResetObs ELSE o[i] + 1]]

\* RewardVecEnvWrapper.step_wait: the rewards are recomputed, the rest passes.
RewardVecEnvWrapper_step_wait(under, rtype, o, acts) ==
    [under EXCEPT !.rews = [i \in DOMAIN o |->
                               RewardFn(rtype, o[i], acts[i], under.nextObs[i])]]

HasLayer(l) == \E k \in DOMAIN layers : layers[k] = l

\* What the wrapper chain of venv returns for a step of the innermost
\* environment: InteractiveRender (when present) is applied first, the reward
\* wrapper (when present) on top of it.
RenderStep(base) ==
    IF HasLayer("InteractiveRender")
    THEN InteractiveRender_step_wait(base, cfg.render_fps)
    ELSE [ret |-> base, log |-> <<>>]

RewardStep(under, o, acts) ==
    IF HasLayer("RewardVecEnvWrapper")
    THEN RewardVecEnvWrapper_step_wait(under, cfg.reward_type, o, acts)
    ELSE under

RenderReset(base) ==
    IF HasLayer("InteractiveRender")
    THEN InteractiveRender_reset(base)
    ELSE [ret |-> base, log |-> <<>>]

\* The trajectories completed by a step, in instance order.
RECURSIVE Finished(_, _, _, _)
Finished(i, c, dones, act) ==
    IF i > cfg.num_vec THEN <<>>
    ELSE (IF i \in act /\ dones[i] THEN <<c[i]>> ELSE <<>>)
         \o Finished(i + 1, c, dones, act)

ActiveAfter_dropInFlight(su, ts, act, dones) ==
    IF SampleUntil(su, ts) THEN {} ELSE act

\* Once the stopping condition holds, an instance leaves the collection when
\* its episode is done; the episodes in flight are continued until then.
ActiveAfter(su, ts, act, dones) ==
    IF SampleUntil(su, ts) THEN {i \in act : ~dones[i]} ELSE act

\* rollout_stats over a non-empty sequence (means are the sums over n_traj).
RECURSIVE SumRew(_)
SumRew(t) == IF t = <<>> THEN 0 ELSE Head(t).rew + SumRew(Tail(t))
RECURSIVE SumReturns(_)
SumReturns(ts) == IF ts = <<>> THEN 0 ELSE SumRew(Head(ts)) + SumReturns(Tail(ts))
Stats(ts) == [n_traj |-> Len(ts), return_sum |-> SumReturns(ts), len_sum |-> SumLen(ts)]

\* ------------------------------------------------------------------ Init
OptInt(m) == {None} \cup {Some(n) : n \in 1..m}

Configs ==
    [eval_n_timesteps : OptInt(MaxTimesteps),
     eval_n_episodes : OptInt(MaxEpisodes),
     num_vec : 1..MaxVec,
     render : BOOLEAN,
     render_fps : RenderFpsValues,
     reward_type : {NoRewardType} \cup RewardTypes]

Fresh ==
    /\ exc = "none"
    /\ result = <<>>
    /\ sample_until = NoSampleUntil
    /\ envMade = 0
    /\ layers = <<>>
    /\ loadCalls = [reward |-> 0, policy |-> 0]
    /\ loadFailed = {}
    /\ held = {}
    /\ resLog = <<>>
    /\ genCalls = 0
    /\ genReturned = FALSE
    /\ statsCalls = 0
    /\ obs = [i \in 1..cfg.num_vec |-> ResetObs]
    /\ cur = [i \in 1..cfg.num_vec |-> <<>>]
    /\ active = {}
    /\ trajectories = <<>>
    /\ envSteps = 0
    /\ lastBase = NoCall
    /\ irRet = NoCall
    /\ lastOut = NoCall
    /\ renderLog = <<>>

Init ==
    /\ cfg \in Configs
    /\ pc = "start"
    /\ trajs = <<>>
    /\ Fresh

\* --------------------------------------------------- eval_policy (84-112)
\* Lines 84-88: log directory, symlink, logging.
LogSetup_envFirst ==
    /\ pc = "start"
    /\ pc' = "make_sample_until"
    /\ envMade' = envMade + 1
    /\ UNCHANGED <<cfg, exc, result, sample_until, layers, resVars, engineVars,
                   callVars, statsCalls>>

LogSetup ==
    /\ pc = "start"
    /\ pc' = "make_sample_until"
    /\ UNCHANGED <<cfg, exc, result, setupVars, resVars, engineVars, callVars,
                   statsCalls>>

SetSampleUntil(su) ==
    /\ IF su.kind = "ValueError"
       THEN /\ exc' = "ValueError"
            /\ pc' = "failed"
            /\ UNCHANGED sample_until
       ELSE /\ sample_until' = su
            /\ pc' = "make_vec_env"
            /\ UNCHANGED exc
    /\ UNCHANGED <<cfg, result, envMade, layers, resVars, engineVars, callVars,
                   statsCalls>>

EvalMakeSampleUntil_swapped ==
    /\ pc = "make_sample_until"
    /\ SetSampleUntil(make_sample_until(cfg.eval_n_episodes, cfg.eval_n_timesteps))

EvalMakeSampleUntil_timestepsOnly ==
    /\ pc = "make_sample_until"
    /\ SetSampleUntil(make_sample_until(cfg.eval_n_timesteps, None))

\* Line 89.
EvalMakeSampleUntil ==
    /\ pc = "make_sample_until"
    /\ SetSampleUntil(make_sample_until(cfg.eval_n_timesteps, cfg.eval_n_episodes))

\* Lines 90-97.
MakeVecEnv ==
    /\ pc = "make_vec_env"
    /\ envMade' = envMade + 1
    /\ layers' = <<"base">>
    /\ pc' = "render"
    /\ UNCHANGED <<cfg, exc, result, sample_until, resVars, engineVars, callVars,
                   statsCalls>>

\* Lines 99-100.
WrapRender ==
    /\ pc = "render"
    /\ layers' = IF cfg.render THEN Append(layers, "InteractiveRender") ELSE layers
    /\ pc' = "stack_enter"
    /\ UNCHANGED <<cfg, exc, result, sample_until, envMade, resVars, engineVars,
                   callVars, statsCalls>>

\* Lines 103-104: the ExitStack is entered and reward_type is tested.
StackEnter ==
    /\ pc = "stack_enter"
    /\ pc' = IF cfg.reward_type # NoRewardType THEN "load_reward" ELSE "load_policy"
    /\ UNCHANGED <<cfg, exc, result, setupVars, resVars, engineVars, callVars,
                   statsCalls>>

\* Lines 105-106: load_reward and stack.enter_context; either may fail.
LoadReward ==
    /\ pc = "load_reward"
    /\ loadCalls' = [loadCalls EXCEPT !.reward = @ + 1]
    /\ \E ok \in BOOLEAN :
         IF ok
         THEN /\ held' = held \cup {"reward"}
              /\ resLog' = Append(resLog, "acquire_reward")
              /\ pc' = "wrap_reward"
              /\ UNCHANGED <<exc, loadFailed>>
         ELSE /\ loadFailed' = loadFailed \cup {"reward"}
              /\ exc' = "LoadError"
              /\ pc' = "stack_exit"
              /\ UNCHANGED <<held, resLog>>
    /\ UNCHANGED <<cfg, result, setupVars, engineVars, callVars, statsCalls>>

WrapReward_skipped ==
    /\ pc = "wrap_reward"
    /\ pc' = "load_policy"
    /\ UNCHANGED <<cfg, exc, result, setupVars, resVars, engineVars, callVars,
                   statsCalls>>

\* Lines 107-108.
WrapReward ==
    /\ pc = "wrap_reward"
    /\ layers' = Append(layers, "RewardVecEnvWrapper")
    /\ pc' = "load_policy"
    /\ UNCHANGED <<cfg, exc, result, sample_until, envMade, resVars, engineVars,
                   callVars, statsCalls>>

LoadPolicyOutcome_ignoreFailure(ok) ==
    IF ok
    THEN /\ held' = held \cup {"policy"}
         /\ resLog' = Append(resLog, "acquire_policy")
         /\ pc' = "gen_call"
         /\ UNCHANGED <<exc, loadFailed>>
    ELSE /\ loadFailed' = loadFailed \cup {"policy"}
         /\ pc' = "gen_call"
         /\ UNCHANGED <<exc, held, resLog>>

\* The two outcomes of line 110's load: acquired, or failed.
LoadPolicyOutcome(ok) ==
    IF ok
    THEN /\ held' = held \cup {"policy"}
         /\ resLog' = Append(resLog, "acquire_policy")
         /\ pc' = "gen_call"
         /\ UNCHANGED <<exc, loadFailed>>
    ELSE /\ loadFailed' = loadFailed \cup {"policy"}
         /\ exc' = "LoadError"
         /\ pc' = "stack_exit"
         /\ UNCHANGED <<held, resLog>>

\* Line 110, entry of the with statement: load_policy and __enter__.
LoadPolicy ==
    /\ pc = "load_policy"
    /\ loadCalls' = [loadCalls EXCEPT !.policy = @ + 1]
    /\ \E ok \in BOOLEAN : LoadPolicyOutcome(ok)
    /\ UNCHANGED <<cfg, result, setupVars, engineVars, callVars, statsCalls>>

\* Line 111, the call: generate_trajectories starts by resetting venv.
GenerateTrajectoriesCall ==
    /\ pc = "gen_call"
    /\ genCalls' = genCalls + 1
    /\ LET base == [kind |-> "reset", obs |-> [i \in Envs |-> ResetObs]]
           r == RenderReset(base)
       IN /\ lastBase' = base
          /\ irRet' = IF HasLayer("InteractiveRender") THEN r.ret ELSE NoCall
          /\ renderLog' = r.log
          /\ lastOut' = r.ret
          /\ obs' = r.ret.obs
    /\ cur' = [i \in Envs |-> <<>>]
    /\ trajectories' = <<>>
    /\ active' = Envs
    /\ pc' = "rollout"
    /\ UNCHANGED <<cfg, exc, result, setupVars, resVars, genReturned, trajs,
                   envSteps, statsCalls>>

\* Line 111, one iteration of the rollout: the policy acts, venv steps, the
\* steps are recorded and the stopping condition is evaluated.
GenerateTrajectoriesStep ==
    /\ pc = "rollout"
    /\ \E dn \in [Envs -> BOOLEAN] :
         LET acts == [i \in Envs |-> Policy(obs[i])]
             base == VecEnvStep(obs, acts, dn)
             r == RenderStep(base)
             out == RewardStep(r.ret, obs, acts)
             cur2 == [i \in Envs |->
                        IF i \in active
                        THEN Append(cur[i], [obs |-> obs[i], act |-> acts[i],
                                             next_obs |-> out.nextObs[i],
                                             rew |-> out.rews[i],
                                             done |-> out.dones[i]])
                        ELSE cur[i]]
             ts == trajectories \o Finished(1, cur2, out.dones, active)
             act2 == ActiveAfter(sample_until, ts, active, out.dones)
         IN /\ lastBase' = base
            /\ irRet' = IF HasLayer("InteractiveRender") THEN r.ret ELSE NoCall
            /\ renderLog' = r.log
            /\ lastOut' = out
            /\ obs' = out.obs
            /\ cur' = [i \in Envs |-> IF out.dones[i] THEN <<>> ELSE cur2[i]]
            /\ trajectories' = ts
            /\ active' = act2
            /\ pc' = IF act2 = {} THEN "gen_return" ELSE "rollout"
    /\ envSteps' = envSteps + 1
    /\ UNCHANGED <<cfg, exc, result, setupVars, resVars, genCalls, genReturned,
                   trajs, statsCalls>>

\* Line 111: the rollout raises (an environment crash, for example).
GenerateTrajectoriesRaise ==
    /\ pc = "rollout"
    /\ exc' = "RolloutError"
    /\ pc' = "policy_exit"
    /\ UNCHANGED <<cfg, result, setupVars, resVars, engineVars, callVars,
                   statsCalls>>

\* Line 111, the assignment: the completed trajectories are bound to trajs.
GenerateTrajectoriesReturn ==
    /\ pc = "gen_return"
    /\ trajs' = trajectories
    /\ genReturned' = TRUE
    /\ pc' = "policy_exit"
    /\ UNCHANGED <<cfg, exc, result, setupVars, resVars, genCalls, obs, cur,
                   active, trajectories, envSteps, callVars, statsCalls>>

PolicyExit_leaked ==
    /\ pc = "policy_exit"
    /\ pc' = "stack_exit"
    /\ UNCHANGED <<cfg, exc, result, setupVars, resVars, engineVars, callVars,
                   statsCalls>>

\* Line 110, exit of the with statement: the policy is released, an exception
\* in flight keeps propagating.
PolicyExit ==
    /\ pc = "policy_exit"
    /\ held' = held \ {"policy"}
    /\ resLog' = Append(resLog, "release_policy")
    /\ pc' = "stack_exit"
    /\ UNCHANGED <<cfg, exc, result, setupVars, loadCalls, loadFailed,
                   engineVars, callVars, statsCalls>>

StackExit_keepReward ==
    /\ pc = "stack_exit"
    /\ pc' = IF exc = "none" THEN "stats" ELSE "failed"
    /\ UNCHANGED <<cfg, exc, result, setupVars, resVars, engineVars, callVars,
                   statsCalls>>

\* Line 103, exit of the ExitStack: what was entered is released, an
\* exception in flight propagates to the caller.
StackExit ==
    /\ pc = "stack_exit"
    /\ IF "reward" \in held
       THEN /\ held' = held \ {"reward"}
            /\ resLog' = Append(resLog, "release_reward")
       ELSE UNCHANGED <<held, resLog>>
    /\ pc' = IF exc = "none" THEN "stats" ELSE "failed"
    /\ UNCHANGED <<cfg, exc, result, setupVars, loadCalls, loadFailed,
                   engineVars, callVars, statsCalls>>

rollout_stats_allowEmpty(ts) ==
    [ok |-> TRUE, stats |-> Stats(ts)]

\* rollout.rollout_stats: fails on an empty sequence.
rollout_stats(ts) ==
    IF ts = <<>> THEN [ok |-> FALSE, stats |-> Stats(<<>>)]
    ELSE [ok |-> TRUE, stats |-> Stats(ts)]

\* Line 112.
RolloutStats ==
    /\ pc = "stats"
    /\ statsCalls' = statsCalls + 1
    /\ LET r == rollout_stats(trajs)
       IN IF r.ok
          THEN /\ result' = <<r.stats>>
               /\ pc' = "done"
               /\ UNCHANGED exc
          ELSE /\ exc' = "AssertionError"
               /\ pc' = "failed"
               /\ UNCHANGED result
    /\ UNCHANGED <<cfg, setupVars, resVars, engineVars, callVars>>

Next ==
    \/ LogSetup
    \/ EvalMakeSampleUntil
    \/ MakeVecEnv
    \/ WrapRender
    \/ StackEnter
    \/ LoadReward
    \/ WrapReward
    \/ LoadPolicy
    \/ GenerateTrajectoriesCall
    \/ GenerateTrajectoriesStep
    \/ GenerateTrajectoriesRaise
    \/ GenerateTrajectoriesReturn
    \/ PolicyExit
    \/ StackExit
    \/ RolloutStats

Spec == Init /\ [][Next]_vars

TypeOK ==
    /\ cfg \in Configs
    /\ held \subseteq {"reward", "policy"}
    /\ active \subseteq Envs

\* --------------------------------------- rollout_stats applied on its own
\* A complete episode of n steps of the environment, native rewards.
Episode(n) ==
    [k \in 1..n |-> [obs |-> k - 1, act |-> Policy(k - 1), next_obs |-> k,
                     rew |-> NativeReward(k - 1, Policy(k - 1)),
                     done |-> (k = n)]]

Episodes == {Episode(n) : n \in 1..MaxEpLen}

StatsInputs ==
    {<<>>} \cup {<<e>> : e \in Episodes}
           \cup {<<e1, e2>> : e1 \in Episodes, e2 \in Episodes}

\* rollout_stats called directly on a sequence of trajectories.
InitStats ==
    /\ cfg \in Configs
    /\ pc = "stats"
    /\ trajs \in StatsInputs
    /\ Fresh

SpecStats == (Init \/ InitStats) /\ [][Next]_vars

\* ---------------------------------------------------------------- claims
ExactlyOneSet == IsSet(cfg.eval_n_timesteps) # IsSet(cfg.eval_n_episodes)
RewardConfigured == cfg.reward_type # NoRewardType

\* C1: eval_policy goes past make_sample_until only when exactly one of
\* eval_n_timesteps and eval_n_episodes is set; with both or neither set the
\* run is rejected with an error, no rollout happens and no statistics are
\* returned.
C1_ExactlyOneOrRejected ==
    /\ (pc \notin {"start", "make_sample_until", "failed"} => ExactlyOneSet)
    /\ (genCalls > 0 => ExactlyOneSet)
    /\ (~ExactlyOneSet /\ pc \notin {"start", "make_sample_until"} =>
            /\ pc = "failed"
            /\ exc = "ValueError"
            /\ result = <<>>
            /\ genCalls = 0
            /\ statsCalls = 0)

C1_Witness ==
    /\ IsSet(cfg.eval_n_timesteps) /\ IsSet(cfg.eval_n_episodes)
    /\ pc = "failed"
    /\ exc = "ValueError"

\* C2: with both or neither of eval_n_episodes and eval_n_timesteps set, the
\* error comes before any environment is constructed: make_vec_env is never
\* called, no wrapper is built, no policy or reward artifact is loaded.
C2_RejectedBeforeEnv ==
    ~ExactlyOneSet =>
        /\ envMade = 0
        /\ layers = <<>>
        /\ loadCalls = [reward |-> 0, policy |-> 0]
        /\ held = {}
        /\ resLog = <<>>

C2_Witness ==
    /\ ~IsSet(cfg.eval_n_timesteps) /\ ~IsSet(cfg.eval_n_episodes)
    /\ pc = "failed"
    /\ envMade = 0

\* C3: every policy or reward function acquired is released on every exit
\* path (normal completion, a rollout that raises, a policy load that fails
\* after the reward function was acquired); a run never ends holding one, and
\* a failure is not swallowed: it reaches the caller and no result is returned.
C3_ReleasedOnEveryExit ==
    /\ (pc \in {"stats", "done", "failed"} => held = {})
    /\ (exc \in {"RolloutError", "LoadError"} =>
            /\ pc \in {"policy_exit", "stack_exit", "failed"}
            /\ result = <<>>
            /\ statsCalls = 0)

C3_Witness ==
    /\ pc = "failed"
    /\ exc = "LoadError"
    /\ loadFailed = {"policy"}
    /\ resLog = <<"acquire_reward", "release_reward">>

\* C4: every trajectory the rollout engine collects and returns starts at a
\* reset and ends at its only done step, and at return no episode is left in
\* flight: the episodes running when the stopping condition was reached were
\* continued to their end.
WellFormed(t) ==
    /\ t # <<>>
    /\ t[1].obs = ResetObs
    /\ t[Len(t)].done
    /\ \A k \in 1..(Len(t) - 1) : ~t[k].done /\ t[k + 1].obs = t[k].next_obs

C5_StoppingConditionMet ==
    (genReturned /\ (pc = "stats" \/ statsCalls > 0)) =>
        /\ (IsSet(cfg.eval_n_episodes) => Len(trajs) >= cfg.eval_n_episodes[1])
        /\ (IsSet(cfg.eval_n_timesteps) => SumLen(trajs) >= cfg.eval_n_timesteps[1])

C5_Witness ==
    /\ pc = "done"
    /\ cfg.num_vec = 2
    /\ cfg.eval_n_episodes = Some(2)
    /\ Len(trajs) = 2
    /\ SumLen(trajs) = 2

\* C6: with reward_type set, every recorded step reward is the loaded reward
\* function's output for that step (5 everywhere for the constant function),
\* while observations and episode boundaries are those of the innermost
\* environment; with reward_type None no reward artifact is loaded and the
\* native reward is recorded.
StepRewardOK(st) ==
    IF RewardConfigured
    THEN /\ st.rew = RewardFn(cfg.reward_type, st.obs, st.act, st.next_obs)
         /\ (cfg.reward_type = "const5" => st.rew = 5)
    ELSE st.rew = NativeReward(st.obs, st.act)

C6_RewardOverride ==
    /\ \A k \in DOMAIN trajectories :
          \A j \in DOMAIN trajectories[k] : StepRewardOK(trajectories[k][j])
    /\ \A i \in Envs : \A j \in DOMAIN cur[i] : StepRewardOK(cur[i][j])
    /\ (lastOut.kind = "step" =>
            /\ lastOut.obs = lastBase.obs
            /\ lastOut.nextObs = lastBase.nextObs
            /\ lastOut.dones = lastBase.dones)
    /\ (lastOut.kind = "reset" => lastOut = lastBase)
    /\ (~RewardConfigured => loadCalls.reward = 0 /\ "reward" \notin held)

C6_Witness ==
    /\ pc = "done"
    /\ cfg.reward_type = "const5"
    /\ Len(trajs) = 2
    /\ trajs[1][1].rew = 5
    /\ NativeReward(trajs[1][1].obs, trajs[1][1].act) # 5

\* C7: InteractiveRender returns exactly what the wrapped environment's reset
\* or step_wait returned, and renders once per call, after forwarding the
\* call and, on a step with render_fps > 0, after the sleep; with
\* render_fps <= 0 it does not sleep.
Count(sq, x) == Cardinality({k \in DOMAIN sq : sq[k] = x})

C7_RenderPassThrough ==
    /\ (HasLayer("InteractiveRender") => cfg.render)
    /\ (lastBase.kind # "none" /\ cfg.render => HasLayer("InteractiveRender"))
    /\ (HasLayer("InteractiveRender") /\ lastBase.kind # "none" =>
            /\ irRet = lastBase
            /\ Count(renderLog, "render") = 1
            /\ renderLog[Len(renderLog)] = "render"
            /\ renderLog[1] = (IF lastBase.kind = "reset"
                               THEN "venv.reset" ELSE "venv.step_wait")
            /\ Count(renderLog, "sleep") =
                  (IF lastBase.kind = "step" /\ cfg.render_fps > 0 THEN 1 ELSE 0))
    /\ (~HasLayer("InteractiveRender") => renderLog = <<>> /\ irRet = NoCall)

C7_Witness ==
    /\ cfg.render
    /\ cfg.render_fps = 2
    /\ lastBase.kind = "step"
    /\ irRet = lastBase
    /\ renderLog = <<"venv.step_wait", "sleep", "render">>

\* C8: a failing load_reward or load_policy is fatal and not retried: each
\* load is attempted at most once, generate_trajectories is not called, no
\* environment step is taken, no statistics are computed or returned, the
\* error propagates, and after a failed reward load the policy load is not
\* attempted.
C8_LoadFailureFatal ==
    /\ loadCalls.reward <= 1
    /\ loadCalls.policy <= 1
    /\ (loadFailed # {} =>
            /\ genCalls = 0
            /\ envSteps = 0
            /\ statsCalls = 0
            /\ result = <<>>
            /\ exc = "LoadError"
            /\ pc \in {"stack_exit", "failed"}
            /\ ("reward" \in loadFailed => loadCalls.policy = 0))

C8_Witness ==
    /\ loadFailed = {"reward"}
    /\ pc = "failed"
    /\ loadCalls = [reward |-> 1, policy |-> 0]

IsPrefix(p, q) == Len(p) <= Len(q) /\ \A k \in DOMAIN p : p[k] = q[k]

C10_NestedScopes ==
    /\ \/ IsPrefix(resLog, <<"acquire_reward", "acquire_policy",
                             "release_policy", "release_reward">>)
       \/ resLog = <<"acquire_reward", "release_reward">>
       \/ (~RewardConfigured
             /\ IsPrefix(resLog, <<"acquire_policy", "release_policy">>))
    /\ (pc \in {"gen_call", "rollout", "gen_return"} =>
            /\ "policy" \in held
            /\ (RewardConfigured => "reward" \in held))
    /\ (envSteps > 0 => Count(resLog, "acquire_policy") = 1)
    /\ (pc = "stats" \/ statsCalls > 0 => held = {})
    /\ (genReturned /\ (pc = "stats" \/ statsCalls > 0) =>
            /\ Count(resLog, "release_policy") = 1
            /\ Count(resLog, "release_reward") = (IF RewardConfigured THEN 1 ELSE 0))

C10_Witness ==
    /\ pc = "done"
    /\ resLog = <<"acquire_reward", "acquire_policy",
                  "release_policy", "release_reward">>
    /\ envSteps > 0

====
